---------------------------- MODULE Spec2Model ----------------------------
(* A model of the kotsadm provisioning code of pkg/upload/upload.go:      *)
(* the credential secrets (getSecretsYAML, ensureSecrets and its four     *)
(* ensure-operations), the object-storage objects (getMinioYAML,          *)
(* ensureMinio and its four ensure-operations), and the cluster they      *)
(* query and create resources in.  One invoker executes one cluster call  *)
(* (a blocking Get or Create) per step, so that two invokers interleave   *)
(* at exactly the places where the Go code can be interleaved.  Upload    *)
(* and the operator prompts it and ensureSharedPasswordSecret run are     *)
(* modelled with one prompt.Run() per step.                               *)
EXTENDS Integers, Sequences, FiniteSets, TLC

VARIABLES
    cluster,    \* resource key -> the stored object, or Absent
    procs,      \* invoker -> number of calls it makes, 0 for an invoker that is not there
    opts,       \* invoker -> its DeployOptions value
    pc,         \* invoker -> position in the code
    hash,       \* invoker -> the local bcryptPassword of ensureSharedPasswordSecret
    docs,       \* invoker -> the docs map being built by a render call
    err,        \* invoker -> error returned by the last finished call
    ret,        \* invoker -> document map returned by the last finished render call
    entry,      \* invoker -> the entry point of the current or last call
    passes,     \* invoker -> number of calls started
    opts0,      \* invoker -> DeployOptions on entry of the current or last call
    calls,      \* invoker -> cluster calls issued by the current or last call
    built,      \* invoker -> builder invocations of the current or last call
    hashed,     \* invoker -> bcrypt computations of the current or last call
    prompts,    \* invoker -> the prompt.Run() calls of the current or last call
    writes,     \* invoker -> DeployOptions field writes of the current or last call
    rand,       \* invoker -> number of values it drew from the random source
    ran,        \* invoker -> ensure-operation -> result of its latest run
    created,    \* resource key -> number of successful creates
    ret0,       \* invoker -> document map returned by the call before the current one
    uploadOptions, \* invoker -> the UploadOptions value of its Upload call
    spinner,    \* invoker -> Logger calls of the current or last call
    logger      \* a Logger, its spinner goroutine and the goroutine calling it

vars == <<cluster, procs, opts, pc, hash, docs, err, ret, entry, passes,
          opts0, calls, built, hashed, prompts, writes, rand, ran,
          created, ret0, uploadOptions, spinner, logger>>

-----------------------------------------------------------------------------
(* Bounds *)

MaxPasses == 2

MaxPromptRuns == 2

MaxLoggerCalls == 3

MaxFrames == 3

-----------------------------------------------------------------------------
(* Values *)

Invokers == {1, 2}

Namespaces == {"ns1"}

\* two decimal digits
Pad2(n) == IF n < 10 THEN "0" \o ToString(n) ELSE ToString(n)

\* uuid.New().String() for the n-th draw of invoker p from the random
\* source: every draw gives a value no other draw gives
UUID(p, n) == "uuid-" \o ToString(p) \o "-" \o Pad2(n)

\* the salt bcrypt draws from the random source
Salt(p, n) == "s" \o ToString(p) \o "-" \o Pad2(n)

\* what an operator may type at the password prompt
PromptInputs == {"abc", "hunter22"}

nil == <<>>

Absent == <<>>

Wrap(e, msg) == <<msg>> \o e

IsNil(e) == e = nil

-----------------------------------------------------------------------------
(* The reserved resources.  Every ensure-operation addresses one key       *)
(* (kind, namespace, name); the name is a constant of the operation.       *)

Key(kind, namespace, name) == <<kind, namespace, name>>

SessionKey(ns) == Key("Secret", ns, "kotsadm-session")

PostgresKey(ns) == Key("Secret", ns, "kotsadm-postgres")

PasswordKey(ns) == Key("Secret", ns, "kotsadm-password")

S3Key(ns) == Key("Secret", ns, "kotsadm-minio")

ConfigMapKey(ns) == Key("ConfigMap", ns, "kotsadm-minio")

StatefulsetKey(ns) == Key("StatefulSet", ns, "kotsadm-minio")

ServiceKey(ns) == Key("Service", ns, "kotsadm-minio")

JobKey(ns) == Key("Job", ns, "kotsadm-minio")

SecretOps == <<"session", "postgres", "password", "s3">>

MinioOps == <<"configmap", "statefulset", "service", "job">>

Ops == {SecretOps[i] : i \in 1..4} \cup {MinioOps[i] : i \in 1..4}

KeyOf(op, ns) ==
    CASE op = "session"     -> SessionKey(ns)
      [] op = "postgres"    -> PostgresKey(ns)
      [] op = "password"    -> PasswordKey(ns)
      [] op = "s3"          -> S3Key(ns)
      [] op = "configmap"   -> ConfigMapKey(ns)
      [] op = "statefulset" -> StatefulsetKey(ns)
      [] op = "service"     -> ServiceKey(ns)
      [] op = "job"         -> JobKey(ns)

Keys == {KeyOf(op, ns) : op \in Ops, ns \in Namespaces}

-----------------------------------------------------------------------------
(* Resource builders: (namespace, parameters) -> resource definition.      *)
(* A definition is the sequence kind, namespace, name, data values.        *)

jwtSecret(namespace, jwt) == SessionKey(namespace) \o <<jwt>>

pgSecret(namespace, password) == PostgresKey(namespace) \o <<password>>

sharedPasswordSecret(namespace, bcryptPassword) ==
    PasswordKey(namespace) \o <<bcryptPassword>>

s3Secret(namespace, accessKey, secretKey) ==
    S3Key(namespace) \o <<accessKey, secretKey>>

minioConfigMap(namespace) == ConfigMapKey(namespace) \o <<"minio-config">>

minioStatefulset(namespace) == StatefulsetKey(namespace) \o <<"minio-statefulset">>

minioService(namespace) == ServiceKey(namespace) \o <<"minio-service">>

minioJob(namespace) == JobKey(namespace) \o <<"minio-job">>

\* the key under which the cluster stores a definition
ObjectKey(obj) == SubSeq(obj, 1, 3)

\* a resource somebody else put into the namespace before the first call
PreExisting(k) == k \o <<"pre-existing">>

-----------------------------------------------------------------------------
(* bcrypt.GenerateFromPassword(password, 10): a salted one-way hash, and   *)
(* the YAML serializer's Encode.                                           *)

GenerateFromPassword(password, salt) ==
    "$2a$10$" \o salt \o password

\* re-hash the password with the salt stored in the hash and compare
CompareHashAndPassword(hashedPassword, password) ==
    /\ Len(hashedPassword) >= 12
    /\ hashedPassword = GenerateFromPassword(password, SubSeq(hashedPassword, 8, 12))

Encode(obj) == <<"---">> \o obj

-----------------------------------------------------------------------------
(* The cluster API as the client sees it.  An error is the sequence of     *)
(* its wrapping messages, the innermost last.                              *)

NotFound == <<"NotFound">>

AlreadyExists == <<"AlreadyExists">>

ServerError == <<"ServerError">>

\* every error of the Get taken for absence
IsNotFoundAnyError(e) == ~IsNil(e)

IsNotFound(e) == e = NotFound

\* results a Get of key k can have in cluster state c
GetResults(c, k) ==
    {ServerError} \cup (IF c[k] = Absent THEN {NotFound} ELSE {nil})

\* a write that does not reject an existing name
CreateResultsNoConflict(c, obj) == {ServerError, nil}

\* results a Create of obj can have in cluster state c
CreateResults(c, obj) ==
    {ServerError} \cup (IF c[ObjectKey(obj)] = Absent THEN {nil} ELSE {AlreadyExists})

\* a write that replaces the object of an existing name
AfterCreateUpsert(c, obj, e) ==
    IF e = ServerError THEN c ELSE [c EXCEPT ![ObjectKey(obj)] = obj]

\* the cluster after a Create of obj that returned e
AfterCreate(c, obj, e) ==
    IF IsNil(e) THEN [c EXCEPT ![ObjectKey(obj)] = obj] ELSE c

-----------------------------------------------------------------------------
(* DeployOptions and the initial states.                                   *)

CredentialFields ==
    {"JWT", "PostgresPassword", "SharedPassword", "SharedPasswordBcrypt",
     "S3AccessKey", "S3SecretKey"}

\* the value a caller supplies for a field
Supplied(f) ==
    CASE f = "JWT"                  -> "jwt-0"
      [] f = "PostgresPassword"     -> "pg-0"
      [] f = "SharedPassword"       -> "password-0"
      [] f = "SharedPasswordBcrypt" -> GenerateFromPassword("password-0", "s0-00")
      [] f = "S3AccessKey"          -> "access-0"
      [] f = "S3SecretKey"          -> "secret-0"

\* the DeployOptions of a caller who supplies the fields fs and leaves the
\* others empty
OptionsWith(ns, fs) ==
    [f \in CredentialFields \cup {"Namespace"} |->
        IF f = "Namespace" THEN ns ELSE IF f \in fs THEN Supplied(f) ELSE ""]

\* a set that holds at most one element of S, or all of S but at most one
NearlyNoneOrAll(S) ==
    {T \in SUBSET S : \E x \in S : T \subseteq {x} \/ S \ {x} \subseteq T}

ClusterWith(present) ==
    [k \in Keys |-> IF k \in present THEN PreExisting(k) ELSE Absent]

Idle == <<"idle">>

Exited == <<"exited">>

NoWrites == [f \in CredentialFields |-> 0]

UploadFields == {"ExistingAppSlug", "NewAppName", "UpstreamURI", "License", "UpdateCursor"}

\* the zero UploadOptions
NoUploadOptions == [f \in UploadFields |-> ""]

\* &Logger{}: the zero Logger; no spinner goroutine, and its caller between
\* two calls
NewLogger ==
    [isSilent |-> FALSE, spinnerStopCh |-> "nil", goroutine |-> "none",
     frame |-> 0, caller |-> "ready", called |-> <<>>]

\* ps gives the calls of each invoker, present the resources that exist beforehand, and
\* every invoker is handed the fields fs
InitWith(ps, present, fs) ==
    /\ procs = ps
    /\ cluster = ClusterWith(present)
    /\ \E ns \in Namespaces : opts = [p \in Invokers |-> OptionsWith(ns, fs)]
    /\ pc = [p \in Invokers |-> Idle]
    /\ hash = [p \in Invokers |-> ""]
    /\ docs = [p \in Invokers |-> {}]
    /\ err = [p \in Invokers |-> nil]
    /\ ret = [p \in Invokers |-> <<>>]
    /\ entry = [p \in Invokers |-> "none"]
    /\ passes = [p \in Invokers |-> 0]
    /\ opts0 = opts
    /\ calls = [p \in Invokers |-> <<>>]
    /\ built = [p \in Invokers |-> <<>>]
    /\ hashed = [p \in Invokers |-> 0]
    /\ prompts = [p \in Invokers |-> <<>>]
    /\ writes = [p \in Invokers |-> NoWrites]
    /\ rand = [p \in Invokers |-> 0]
    /\ ran = [p \in Invokers |-> [op \in Ops |-> "never"]]
    /\ created = [k \in Keys |-> 0]
    /\ ret0 = [p \in Invokers |-> <<>>]
    /\ uploadOptions = [p \in Invokers |-> NoUploadOptions]
    /\ spinner = [p \in Invokers |-> <<>>]
    /\ logger = NewLogger

\* one invoker: the single sequential control flow the design assumes
Init ==
    \E present \in SUBSET Keys, fs \in SUBSET CredentialFields :
        /\ \/ present \in NearlyNoneOrAll(Keys) /\ fs \in {{}, CredentialFields}
           \/ present \in {{}, Keys} /\ fs \in NearlyNoneOrAll(CredentialFields)
        /\ InitWith([p \in Invokers |-> IF p = 1 THEN MaxPasses ELSE 0], present, fs)

\* two invokers against the same namespace, one call each
InitConc ==
    \E ns \in Namespaces, fs \in {{}, CredentialFields} :
        \E present \in {{}, {KeyOf(SecretOps[i], ns) : i \in 1..4}, Keys} :
            InitWith([p \in Invokers |-> 1], present, fs)

-----------------------------------------------------------------------------
(* Control flow of the group operations.  A group operation is modelled    *)
(* by what it does with the error e its step op returned: the position     *)
(* the invoker continues at and the error the call has returned, if any.   *)

\* ensureSharedPasswordSecret starts with the prompt iff no plaintext is set
PasswordEntry(o) ==
    IF o.SharedPassword = "" THEN <<"password", "prompt">> ELSE <<"password", "hash">>

\* the orchestrator: the credentials group, then the storage-service group
ProvisioningOrchestrator(group, e) ==
    IF ~IsNil(e)
    THEN [pc |-> Idle, err |-> Wrap(e, "failed to ensure " \o group)]
    ELSE IF group = "secrets"
         THEN [pc |-> <<"configmap", "get">>, err |-> nil]
         ELSE [pc |-> Idle, err |-> nil]

ensureSecretsMsg(op) ==
    CASE op = "session"  -> "failed to ensure jwt session secret"
      [] op = "postgres" -> "failed to ensure postgres secret"
      [] op = "password" -> "failed to ensure shared password secret"
      [] op = "s3"       -> "failed to ensure s3 secret"

\* the error of ensureS3Secret dropped
ensureSecretsDropsError(o, op, e) ==
    IF ~IsNil(e) /\ op # "s3"
    THEN ProvisioningOrchestrator("secrets", Wrap(e, ensureSecretsMsg(op)))
    ELSE CASE op = "session"  -> [pc |-> <<"postgres", "get">>, err |-> nil]
           [] op = "postgres" -> [pc |-> PasswordEntry(o), err |-> nil]
           [] op = "password" -> [pc |-> <<"s3", "get">>, err |-> nil]
           [] op = "s3"       -> ProvisioningOrchestrator("secrets", nil)

\* a step that failed is run again
ensureSecretsRetries(o, op, e) ==
    IF ~IsNil(e)
    THEN [pc |-> <<op, "get">>, err |-> nil]
    ELSE CASE op = "session"  -> [pc |-> <<"postgres", "get">>, err |-> nil]
           [] op = "postgres" -> [pc |-> PasswordEntry(o), err |-> nil]
           [] op = "password" -> [pc |-> <<"s3", "get">>, err |-> nil]
           [] op = "s3"       -> ProvisioningOrchestrator("secrets", nil)

ensureSecrets(o, op, e) ==
    IF ~IsNil(e)
    THEN ProvisioningOrchestrator("secrets", Wrap(e, ensureSecretsMsg(op)))
    ELSE CASE op = "session"  -> [pc |-> <<"postgres", "get">>, err |-> nil]
           [] op = "postgres" -> [pc |-> PasswordEntry(o), err |-> nil]
           [] op = "password" -> [pc |-> <<"s3", "get">>, err |-> nil]
           [] op = "s3"       -> ProvisioningOrchestrator("secrets", nil)

ensureMinioMsg(op) ==
    CASE op = "configmap"   -> "failed to ensure minio configmap"
      [] op = "statefulset" -> "failed to ensure minio statefulset"
      [] op = "service"     -> "failed to ensure minio service"
      [] op = "job"         -> "failed to ensure minio job"

\* the error of ensureMinioConfigMap logged and not returned
ensureMinioContinues(op, e) ==
    IF ~IsNil(e) /\ op # "configmap"
    THEN ProvisioningOrchestrator("minio", Wrap(e, ensureMinioMsg(op)))
    ELSE CASE op = "configmap"   -> [pc |-> <<"statefulset", "get">>, err |-> nil]
           [] op = "statefulset" -> [pc |-> <<"service", "get">>, err |-> nil]
           [] op = "service"     -> [pc |-> <<"job", "get">>, err |-> nil]
           [] op = "job"         -> ProvisioningOrchestrator("minio", nil)

\* the service ensured before the stateful set
ensureMinioServiceFirst(op, e) ==
    IF ~IsNil(e)
    THEN ProvisioningOrchestrator("minio", Wrap(e, ensureMinioMsg(op)))
    ELSE CASE op = "configmap"   -> [pc |-> <<"service", "get">>, err |-> nil]
           [] op = "service"     -> [pc |-> <<"statefulset", "get">>, err |-> nil]
           [] op = "statefulset" -> [pc |-> <<"job", "get">>, err |-> nil]
           [] op = "job"         -> ProvisioningOrchestrator("minio", nil)

ensureMinio(op, e) ==
    IF ~IsNil(e)
    THEN ProvisioningOrchestrator("minio", Wrap(e, ensureMinioMsg(op)))
    ELSE CASE op = "configmap"   -> [pc |-> <<"statefulset", "get">>, err |-> nil]
           [] op = "statefulset" -> [pc |-> <<"service", "get">>, err |-> nil]
           [] op = "service"     -> [pc |-> <<"job", "get">>, err |-> nil]
           [] op = "job"         -> ProvisioningOrchestrator("minio", nil)

\* an already-exists error of the Create taken for success
OpReturnToleratesExists(p, op, e) ==
    LET e2 == IF ~IsNil(e) /\ e[Len(e)] = "AlreadyExists" THEN nil ELSE e
        c == IF op \in {SecretOps[i] : i \in 1..4}
             THEN ensureSecrets(opts'[p], op, e2)
             ELSE ensureMinio(op, e2)
    IN  /\ pc' = [pc EXCEPT ![p] = c.pc]
        /\ err' = [err EXCEPT ![p] = c.err]
        /\ ran' = [ran EXCEPT ![p][op] = IF IsNil(e2) THEN "ok" ELSE "err"]

\* the ensure-operation op of invoker p returns e to its group operation
OpReturn(p, op, e) ==
    LET c == IF op \in {SecretOps[i] : i \in 1..4}
             THEN ensureSecrets(opts'[p], op, e)
             ELSE ensureMinio(op, e)
    IN  /\ pc' = [pc EXCEPT ![p] = c.pc]
        /\ err' = [err EXCEPT ![p] = c.err]
        /\ ran' = [ran EXCEPT ![p][op] = IF IsNil(e) THEN "ok" ELSE "err"]

-----------------------------------------------------------------------------
(* Entry points.                                                           *)

\* a call of the entry point e by invoker p; uo is its UploadOptions argument
StartWith(p, e, at, uo) ==
    /\ pc[p] = Idle
    /\ passes[p] < procs[p]
    /\ passes' = [passes EXCEPT ![p] = @ + 1]
    /\ entry' = [entry EXCEPT ![p] = e]
    /\ pc' = [pc EXCEPT ![p] = at]
    /\ err' = [err EXCEPT ![p] = nil]
    /\ ret' = [ret EXCEPT ![p] = <<>>]
    /\ ret0' = [ret0 EXCEPT ![p] = ret[p]]
    /\ docs' = [docs EXCEPT ![p] = {}]
    /\ hash' = [hash EXCEPT ![p] = ""]
    /\ opts0' = [opts0 EXCEPT ![p] = opts[p]]
    /\ calls' = [calls EXCEPT ![p] = <<>>]
    /\ built' = [built EXCEPT ![p] = <<>>]
    /\ hashed' = [hashed EXCEPT ![p] = 0]
    /\ prompts' = [prompts EXCEPT ![p] = <<>>]
    /\ writes' = [writes EXCEPT ![p] = NoWrites]
    /\ uploadOptions' = [uploadOptions EXCEPT ![p] = uo]
    /\ spinner' = [spinner EXCEPT ![p] = <<>>]
    /\ UNCHANGED <<cluster, procs, logger, opts, rand, ran, created>>

Start(p, e, at) == StartWith(p, e, at, NoUploadOptions)

\* the orchestrator calls ensureSecrets, which calls ensureJWTSessionSecret
StartDeploy(p) == Start(p, "deploy", <<"session", "get">>)

StartGetSecretsYAML(p) == Start(p, "getSecretsYAML", <<"getSecretsYAML", "jwt">>)

StartGetMinioYAML(p) == Start(p, "getMinioYAML", <<"getMinioYAML", "configmap">>)

-----------------------------------------------------------------------------
(* The ensure-operations: query by the fixed name, create if not found.    *)

Call(name, k, e) == [call |-> name, key |-> k, res |-> e]

Built(name, args) == [builder |-> name, args |-> args]

\* the guard on err of the Get left out: create whenever the Get did not fail
AfterGetAlwaysCreate(e) ==
    IF ~IsNil(e) /\ e # <<"NotFound">> THEN "fail" ELSE "create"

\* a not-found Get taken for a resource that is there
AfterGetIgnoresNotFound(e) ==
    IF IsNil(e) \/ e = <<"NotFound">> THEN "present" ELSE "fail"

\* the branches on the err of the Get:
\*   if err != nil { if !IsNotFound(err) { return wrapped err }; create }; return nil
AfterGet(e) ==
    IF IsNil(e) THEN "present"
    ELSE IF ~IsNotFound(e) THEN "fail" ELSE "create"

\* _, err := ....Get(name, metav1.GetOptions{})
EnsureGet(p, op, getMsg) ==
    /\ pc[p] = <<op, "get">>
    /\ LET k == KeyOf(op, opts[p].Namespace)
       IN  \E e \in GetResults(cluster, k) :
             /\ calls' = [calls EXCEPT ![p] = Append(@, Call("get", k, e))]
             /\ UNCHANGED opts
             /\ CASE AfterGet(e) = "present" -> OpReturn(p, op, nil)
                  [] AfterGet(e) = "fail"    -> OpReturn(p, op, Wrap(e, getMsg))
                  [] AfterGet(e) = "create"  ->
                        /\ pc' = [pc EXCEPT ![p] = <<op, "create">>]
                        /\ UNCHANGED <<err, ran>>
    /\ UNCHANGED <<cluster, procs, logger, ret0, uploadOptions, spinner, hash, docs, ret, entry, passes, opts0,
                   built, hashed, prompts, writes, rand, created>>

\* _, err := ....Create(obj) and the branch on err
\* n is the number of values the arguments drew from the random source
EnsureCreate(p, op, obj, b, n, createMsg) ==
    /\ pc[p] = <<op, "create">>
    /\ rand' = [rand EXCEPT ![p] = @ + n]
    /\ \E e \in CreateResults(cluster, obj) :
          /\ cluster' = AfterCreate(cluster, obj, e)
          /\ created' = IF IsNil(e) THEN [created EXCEPT ![ObjectKey(obj)] = @ + 1]
                                    ELSE created
          /\ calls' = [calls EXCEPT ![p] = Append(@, Call("create", ObjectKey(obj), e))]
          /\ built' = [built EXCEPT ![p] = Append(@, b)]
          /\ UNCHANGED opts
          /\ OpReturn(p, op, IF IsNil(e) THEN nil ELSE Wrap(e, createMsg))
    /\ UNCHANGED <<procs, logger, ret0, uploadOptions, spinner, hash, docs, ret, entry, passes, opts0, hashed, prompts, writes>>

ensureJWTSessionSecret(p) ==
    \/ EnsureGet(p, "session", "failed to get existing session secret")
    \/ LET u == UUID(p, rand[p])
       IN  EnsureCreate(p, "session", jwtSecret(opts[p].Namespace, u),
                        Built("jwtSecret", <<u>>), 1,
                        "failed to create jwt session secret")

ensurePostgresSecret(p) ==
    \/ EnsureGet(p, "postgres", "failed to get existing postgres secret")
    \/ EnsureCreate(p, "postgres",
                    pgSecret(opts[p].Namespace, opts[p].PostgresPassword),
                    Built("pgSecret", <<opts[p].PostgresPassword>>), 0,
                    "failed to create postgres secret")

ensureS3Secret(p) ==
    \/ EnsureGet(p, "s3", "failed to get existing s3 secret")
    \/ LET a == UUID(p, rand[p])
           s == UUID(p, rand[p] + 1)
       IN  EnsureCreate(p, "s3", s3Secret(opts[p].Namespace, a, s),
                        Built("s3Secret", <<a, s>>), 2,
                        "failed to create s3 secret")

ensureMinioConfigMap(p) ==
    \/ EnsureGet(p, "configmap", "failed to get existing config map")
    \/ EnsureCreate(p, "configmap", minioConfigMap(opts[p].Namespace),
                    Built("minioConfigMap", <<>>), 0, "failed to create configmap")

ensureMinioStatefulset(p) ==
    \/ EnsureGet(p, "statefulset", "failed to get existing statefulset")
    \/ EnsureCreate(p, "statefulset", minioStatefulset(opts[p].Namespace),
                    Built("minioStatefulset", <<>>), 0,
                    "failed to create minio statefulset")

ensureMinioService(p) ==
    \/ EnsureGet(p, "service", "failed to get existing service")
    \/ EnsureCreate(p, "service", minioService(opts[p].Namespace),
                    Built("minioService", <<>>), 0, "failed to create service")

ensureMinioJob(p) ==
    \/ EnsureGet(p, "job", "failed to get existing job")
    \/ EnsureCreate(p, "job", minioJob(opts[p].Namespace),
                    Built("minioJob", <<>>), 0, "failed to create job")

-----------------------------------------------------------------------------
(* ensureSharedPasswordSecret: prompt for a missing plaintext, hash it,    *)
(* then query and create like the other ensure-operations.                 *)

BcryptError == <<"BcryptError">>

\* the prompt's Validate function
ValidPassword(input) == Len(input) >= 6

\* errors of prompt.Run()
ErrInterrupt == <<"^C">>

ErrEOF == <<"^D">>

PromptRunErrs == {nil, ErrInterrupt, ErrEOF}

\* one prompt.Run() of the prompt name: its error, and the line it returned
PromptRun(name, e, result) == [prompt |-> name, err |-> e, result |-> result]

\* what prompt.Run() can return with the error e: a run that succeeds
\* returns a line that passed the prompt's Validate
RunResults(e, valid) == IF IsNil(e) THEN valid ELSE {""}

\* the interrupt retried like every other error
PromptOutcomeRetriesInterrupt(e) == IF IsNil(e) THEN "return" ELSE "continue"

\* the body of the prompt loops:
\*   if err != nil { if err == promptui.ErrInterrupt { os.Exit(-1) }; continue }
\*   return result, nil
PromptOutcome(e) ==
    IF IsNil(e) THEN "return"
    ELSE IF e = ErrInterrupt THEN "exit" ELSE "continue"

\* return result, nil
PromptReturn(result) == [value |-> result, err |-> nil]

\* the runs of the prompt name in p's current call
RunsOf(p, name) == {i \in 1..Len(prompts[p]) : prompts[p][i].prompt = name}

\* the loop may go round once more
MayRetry(p, name) == Cardinality(RunsOf(p, name)) + 1 < MaxPromptRuns

\* one prompt.Run() of the loop of promptForSharedPassword, and on its return
\* the caller's branch on err and the assignment to SharedPassword
promptForSharedPassword(p) ==
    /\ pc[p] = <<"password", "prompt">>
    /\ \E e \in PromptRunErrs :
         \E result \in RunResults(e, {i \in PromptInputs : ValidPassword(i)}) :
            /\ prompts' = [prompts EXCEPT ![p] =
                              Append(@, PromptRun("sharedPassword", e, result))]
            /\ CASE PromptOutcome(e) = "return" ->
                      LET r == PromptReturn(result)
                      IN  IF ~IsNil(r.err)
                          THEN /\ OpReturn(p, "password",
                                           Wrap(r.err, "failed to prompt for shared password"))
                               /\ UNCHANGED <<opts, writes>>
                          ELSE /\ opts' = [opts EXCEPT ![p].SharedPassword = r.value]
                               /\ writes' = [writes EXCEPT ![p]["SharedPassword"] = @ + 1]
                               /\ pc' = [pc EXCEPT ![p] = <<"password", "hash">>]
                               /\ UNCHANGED <<err, ran>>
                 [] PromptOutcome(e) = "exit" ->
                      /\ pc' = [pc EXCEPT ![p] = Exited]
                      /\ UNCHANGED <<opts, writes, err, ran>>
                 [] PromptOutcome(e) = "continue" ->
                      /\ MayRetry(p, "sharedPassword")
                      /\ UNCHANGED <<opts, writes, pc, err, ran>>
    /\ UNCHANGED <<cluster, procs, logger, ret0, uploadOptions, spinner, hash, docs, ret,
                   entry, passes, opts0, calls, built, hashed, rand, created>>

\* bcryptPassword, err := bcrypt.GenerateFromPassword(SharedPassword, 10)
HashSharedPassword(p) ==
    /\ pc[p] = <<"password", "hash">>
    /\ hashed' = [hashed EXCEPT ![p] = @ + 1]
    /\ UNCHANGED opts
    /\ \/ /\ hash' = [hash EXCEPT ![p] =
                         GenerateFromPassword(opts[p].SharedPassword, Salt(p, rand[p]))]
          /\ rand' = [rand EXCEPT ![p] = @ + 1]
          /\ pc' = [pc EXCEPT ![p] = <<"password", "get">>]
          /\ UNCHANGED <<err, ran>>
       \/ /\ OpReturn(p, "password",
                      Wrap(BcryptError, "failed to bcrypt shared password"))
          /\ UNCHANGED <<hash, rand>>
    /\ UNCHANGED <<cluster, procs, logger, ret0, uploadOptions, spinner, docs, ret, entry, passes, opts0, calls, built, prompts, writes, created>>

ensureSharedPasswordSecret(p) ==
    \/ promptForSharedPassword(p)
    \/ HashSharedPassword(p)
    \/ EnsureGet(p, "password", "failed to get existing password secret")
    \/ EnsureCreate(p, "password",
                    sharedPasswordSecret(opts[p].Namespace, hash[p]),
                    Built("sharedPasswordSecret", <<hash[p]>>), 0,
                    "failed to create password secret")

-----------------------------------------------------------------------------
(* Render mode: getSecretsYAML and getMinioYAML encode one document per    *)
(* resource into docs and return docs, or nil and the first error.         *)

EncodeError == <<"EncodeError">>

Doc(name, obj) == [name |-> name, bytes |-> Encode(obj)]

\* return docs, nil
ReturnDocs(p, d) ==
    /\ pc' = [pc EXCEPT ![p] = Idle]
    /\ err' = [err EXCEPT ![p] = nil]
    /\ ret' = [ret EXCEPT ![p] = <<d>>]
    /\ docs' = [docs EXCEPT ![p] = d]

\* return docs, errors.Wrap(err, msg): the documents encoded so far go out
\* with the error
ReturnErrorWithDocs(p, e, msg) ==
    /\ pc' = [pc EXCEPT ![p] = Idle]
    /\ err' = [err EXCEPT ![p] = Wrap(e, msg)]
    /\ ret' = [ret EXCEPT ![p] = <<docs[p]>>]
    /\ UNCHANGED docs

\* return nil, errors.Wrap(err, msg)
ReturnError(p, e, msg) ==
    /\ pc' = [pc EXCEPT ![p] = Idle]
    /\ err' = [err EXCEPT ![p] = Wrap(e, msg)]
    /\ ret' = [ret EXCEPT ![p] = <<>>]
    /\ UNCHANGED docs

\* if err := s.Encode(obj, &buf); err != nil { return nil, ... }; docs[name] = buf.Bytes()
EncodeStep(p, name, obj, b, msg, next) ==
    /\ built' = [built EXCEPT ![p] = Append(@, b)]
    /\ \/ ReturnError(p, EncodeError, msg)
       \/ IF next = Idle
          THEN ReturnDocs(p, docs[p] \cup {Doc(name, obj)})
          ELSE /\ docs' = [docs EXCEPT ![p] = @ \cup {Doc(name, obj)}]
               /\ pc' = [pc EXCEPT ![p] = next]
               /\ UNCHANGED <<err, ret>>

getSecretsYAML_jwt(p) ==
    /\ pc[p] = <<"getSecretsYAML", "jwt">>
    /\ EncodeStep(p, "secret-jwt.yaml", jwtSecret(opts[p].Namespace, opts[p].JWT),
                  Built("jwtSecret", <<opts[p].JWT>>),
                  "failed to marshal jwt secret", <<"getSecretsYAML", "pg">>)
    /\ UNCHANGED <<opts, writes, hashed, rand>>

getSecretsYAML_pg(p) ==
    /\ pc[p] = <<"getSecretsYAML", "pg">>
    /\ EncodeStep(p, "secret-pg.yaml",
                  pgSecret(opts[p].Namespace, opts[p].PostgresPassword),
                  Built("pgSecret", <<opts[p].PostgresPassword>>),
                  "failed to marshal pg secret",
                  <<"getSecretsYAML", "sharedPassword">>)
    /\ UNCHANGED <<opts, writes, hashed, rand>>

getSecretsYAML_sharedPassword(p) ==
    /\ pc[p] = <<"getSecretsYAML", "sharedPassword">>
    /\ \/ \* the hash is missing and bcrypt fails
          /\ opts[p].SharedPasswordBcrypt = ""
          /\ hashed' = [hashed EXCEPT ![p] = @ + 1]
          /\ ReturnError(p, BcryptError, "failed to bcrypt shared password")
          /\ UNCHANGED <<opts, writes, built, rand>>
       \/ \* the hash is missing and is computed from the plaintext
          /\ opts[p].SharedPasswordBcrypt = ""
          /\ hashed' = [hashed EXCEPT ![p] = @ + 1]
          /\ rand' = [rand EXCEPT ![p] = @ + 1]
          /\ LET h == GenerateFromPassword(opts[p].SharedPassword, Salt(p, rand[p]))
                IN  /\ opts' = [opts EXCEPT ![p].SharedPasswordBcrypt = h]
                    /\ writes' = [writes EXCEPT ![p]["SharedPasswordBcrypt"] = @ + 1]
                    /\ EncodeStep(p, "secret-shared-password.yaml",
                                  sharedPasswordSecret(opts[p].Namespace, h),
                                  Built("sharedPasswordSecret", <<h>>),
                                  "failed to marshal shared password secret",
                                  <<"getSecretsYAML", "s3">>)
       \/ \* the hash is there
          /\ opts[p].SharedPasswordBcrypt # ""
          /\ EncodeStep(p, "secret-shared-password.yaml",
                        sharedPasswordSecret(opts[p].Namespace,
                                             opts[p].SharedPasswordBcrypt),
                        Built("sharedPasswordSecret", <<opts[p].SharedPasswordBcrypt>>),
                        "failed to marshal shared password secret",
                        <<"getSecretsYAML", "s3">>)
          /\ UNCHANGED <<opts, writes, hashed, rand>>

\* the field regenerated whether or not the caller supplied it
AlwaysFresh(field, fresh) == fresh

\* if field == "" { field = uuid.New().String() }
DefaultIfEmpty(field, fresh) == IF field = "" THEN fresh ELSE field

getSecretsYAML_s3(p) ==
    /\ pc[p] = <<"getSecretsYAML", "s3">>
    /\ LET secretKey == DefaultIfEmpty(opts[p].S3SecretKey, UUID(p, rand[p]))
           n1 == IF secretKey # opts[p].S3SecretKey THEN 1 ELSE 0
           accessKey == DefaultIfEmpty(opts[p].S3AccessKey, UUID(p, rand[p] + n1))
           n2 == IF accessKey # opts[p].S3AccessKey THEN 1 ELSE 0
          IN  /\ rand' = [rand EXCEPT ![p] = @ + n1 + n2]
              /\ opts' = [opts EXCEPT ![p].S3SecretKey = secretKey,
                                      ![p].S3AccessKey = accessKey]
              /\ writes' = [writes EXCEPT
                    ![p]["S3SecretKey"] = @ + n1, ![p]["S3AccessKey"] = @ + n2]
              /\ EncodeStep(p, "secret-s3.yaml",
                            s3Secret(opts[p].Namespace, accessKey, secretKey),
                            Built("s3Secret", <<accessKey, secretKey>>),
                            "failed to marshal s3 secret", Idle)
    /\ UNCHANGED hashed

getSecretsYAML(p) ==
    /\ \/ getSecretsYAML_jwt(p)
       \/ getSecretsYAML_pg(p)
       \/ getSecretsYAML_sharedPassword(p)
       \/ getSecretsYAML_s3(p)
    /\ UNCHANGED <<cluster, procs, logger, ret0, uploadOptions, spinner, hash, entry, passes, opts0, calls,
                   prompts, ran, created>>

getMinioYAML(p) ==
    /\ LET ns == opts[p].Namespace
       IN  \/ /\ pc[p] = <<"getMinioYAML", "configmap">>
              /\ EncodeStep(p, "minio-configmap.yaml", minioConfigMap(ns),
                            Built("minioConfigMap", <<>>),
                            "failed to marshal minio config map",
                            <<"getMinioYAML", "statefulset">>)
           \/ /\ pc[p] = <<"getMinioYAML", "statefulset">>
              /\ EncodeStep(p, "minio-statefulset.yaml", minioStatefulset(ns),
                            Built("minioStatefulset", <<>>),
                            "failed to marshal minio statefulset",
                            <<"getMinioYAML", "service">>)
           \/ /\ pc[p] = <<"getMinioYAML", "service">>
              /\ EncodeStep(p, "minio-service.yaml", minioService(ns),
                            Built("minioService", <<>>),
                            "failed to marshal minio service",
                            <<"getMinioYAML", "job">>)
           \/ /\ pc[p] = <<"getMinioYAML", "job">>
              /\ EncodeStep(p, "minio-job.yaml", minioJob(ns),
                            Built("minioJob", <<>>),
                            "failed to marshal minio job", Idle)
    /\ UNCHANGED <<cluster, procs, logger, ret0, uploadOptions, spinner, opts, hash, entry, passes, opts0, calls, hashed, prompts, writes, rand, ran, created>>

-----------------------------------------------------------------------------
(* Upload: find what to upload, prompt for a missing application name and  *)
(* upstream URI, then send the archive to the kotsadm pod while a spinner  *)
(* runs.  uploadOptions is passed by value; the deferred cleanups touch    *)
(* nothing the model holds.                                                *)

\* an error of a collaborator (file system, cluster, http)
ExternalError == <<"error">>

\* what an operator may leave in the line of the application name prompt
\* (the default, the last part of the path, is part of the line)
AppNameInputs == {"ab", "my-app"}

\* the prompt's Validate function
ValidAppName(input) == Len(input) >= 3

\* what an operator may type at the upstream URI prompt
UpstreamInputs ==
    {"kots", "http://example.com", "helm://stable/mysql", "replicated://my-app"}

\* the place of the first "://" of input at or after i, 0 when there is none
RECURSIVE SchemeEnd(_, _)
SchemeEnd(input, i) ==
    IF i + 2 > Len(input) THEN 0
    ELSE IF SubSeq(input, i, i + 2) = "://" THEN i
    ELSE SchemeEnd(input, i + 1)

IsURL(input) == SchemeEnd(input, 1) > 1

\* url.ParseRequestURI: the scheme of an absolute URI
ParseRequestURI(input) ==
    IF SchemeEnd(input, 1) > 1
    THEN [Scheme |-> SubSeq(input, 1, SchemeEnd(input, 1) - 1), err |-> nil]
    ELSE [Scheme |-> "", err |-> <<"invalid URI for request">>]

supportedSchemes == {"helm", "replicated"}

\* the prompt's Validate function
ValidUpstreamURI(input) ==
    /\ IsURL(input)
    /\ IsNil(ParseRequestURI(input).err)
    /\ ParseRequestURI(input).Scheme \in supportedSchemes

\* the UploadOptions a caller of Upload passes
UploadArguments ==
    {[f \in UploadFields |->
         CASE f = "ExistingAppSlug" -> slug
           [] f = "NewAppName"      -> name
           [] f = "UpstreamURI"     -> uri
           [] OTHER                 -> ""] :
       slug \in {"", "slug-0"}, name \in {"", "app-0"},
       uri \in {"", "helm://stable/mysql"}}

StartUpload(p) ==
    \E uo \in UploadArguments : StartWith(p, "Upload", <<"Upload", "prepare">>, uo)

\* return err
ReturnUpload(p, e) ==
    /\ pc' = [pc EXCEPT ![p] = Idle]
    /\ err' = [err EXCEPT ![p] = e]

\* if uploadOptions.ExistingAppSlug == "" && uploadOptions.UpstreamURI == ""
UpstreamEntry(uo) ==
    IF uo.ExistingAppSlug = "" /\ uo.UpstreamURI = ""
    THEN <<"Upload", "upstreamURI">> ELSE <<"Upload", "spinner">>

\* if uploadOptions.ExistingAppSlug == "" && uploadOptions.NewAppName == ""
AppNameEntry(uo) ==
    IF uo.ExistingAppSlug = "" /\ uo.NewAppName = ""
    THEN <<"Upload", "appName">> ELSE UpstreamEntry(uo)

\* findLicense, findUpdateCursor and createUploadableArchive
Upload_prepare(p) ==
    /\ pc[p] = <<"Upload", "prepare">>
    /\ \/ \E msg \in {"failed to find license", "failed to find update cursor",
                      "failed to create uploadable archive"} :
             /\ ReturnUpload(p, Wrap(ExternalError, msg))
             /\ UNCHANGED uploadOptions
       \/ /\ ReturnUpload(p, <<"no update cursor found. this is not yet supported">>)
          /\ UNCHANGED uploadOptions
       \/ LET uo == [uploadOptions[p] EXCEPT !.License = "license-0",
                                             !.UpdateCursor = "cursor-0"]
          IN  /\ uploadOptions' = [uploadOptions EXCEPT ![p] = uo]
              /\ pc' = [pc EXCEPT ![p] = AppNameEntry(uo)]
              /\ UNCHANGED err
    /\ UNCHANGED <<prompts, spinner>>

\* one prompt.Run() of the loop of a prompt of Upload, and on its return the
\* caller's branch on err and the assignment to the field
UploadPrompt(p, name, valid, field, msg) ==
    /\ pc[p] = <<"Upload", name>>
    /\ \E e \in PromptRunErrs : \E result \in RunResults(e, valid) :
          /\ prompts' = [prompts EXCEPT ![p] = Append(@, PromptRun(name, e, result))]
          /\ CASE PromptOutcome(e) = "return" ->
                    LET r == PromptReturn(result)
                        uo == [uploadOptions[p] EXCEPT ![field] = r.value]
                    IN  IF ~IsNil(r.err)
                        THEN /\ ReturnUpload(p, Wrap(r.err, msg))
                             /\ UNCHANGED uploadOptions
                        ELSE /\ uploadOptions' = [uploadOptions EXCEPT ![p] = uo]
                             /\ pc' = [pc EXCEPT ![p] =
                                          IF name = "appName" THEN UpstreamEntry(uo)
                                          ELSE <<"Upload", "spinner">>]
                             /\ UNCHANGED err
               [] PromptOutcome(e) = "exit" ->
                    /\ pc' = [pc EXCEPT ![p] = Exited]
                    /\ UNCHANGED <<uploadOptions, err>>
               [] PromptOutcome(e) = "continue" ->
                    /\ MayRetry(p, name)
                    /\ UNCHANGED <<uploadOptions, pc, err>>
    /\ UNCHANGED spinner

relentlesslyPromptForAppName(p) ==
    UploadPrompt(p, "appName", {i \in AppNameInputs : ValidAppName(i)},
                 "NewAppName", "failed to prompt for app name")

promptForUpstreamURI(p) ==
    UploadPrompt(p, "upstreamURI", {i \in UpstreamInputs : ValidUpstreamURI(i)},
                 "UpstreamURI", "failed to prompt for upstream uri")

\* log := logger.NewLogger(); log.ActionWithSpinner(...)
Upload_spinner(p) ==
    /\ pc[p] = <<"Upload", "spinner">>
    /\ spinner' = [spinner EXCEPT ![p] = Append(@, "ActionWithSpinner")]
    /\ pc' = [pc EXCEPT ![p] = <<"Upload", "findKotsadm">>]
    /\ UNCHANGED <<uploadOptions, prompts, err>>

\* the steps of Upload while the spinner runs
UploadSteps ==
    <<"findKotsadm", "PortForward", "createUploadRequest", "Do", "StatusCode",
      "ReadAll", "Unmarshal">>

\* the error Upload returns when its step fails
UploadStepError(step) ==
    CASE step = "findKotsadm"         -> Wrap(ExternalError, "failed to find kotsadm pod")
      [] step = "PortForward"         -> Wrap(ExternalError, "failed to start port forwarding")
      [] step = "createUploadRequest" -> Wrap(ExternalError, "failed to create upload request")
      [] step = "Do"                  -> Wrap(ExternalError, "failed to execute request")
      [] step = "StatusCode"          -> <<"unexpected status code">>
      [] step = "ReadAll"             -> Wrap(ExternalError, "failed to read response body")
      [] step = "Unmarshal"           -> Wrap(ExternalError, "failed to unmarshal response")

\* the return on an unexpected status code without log.FinishSpinnerWithError()
Upload_sendStatusCodeUnfinished(p) ==
    /\ \E i \in 1..Len(UploadSteps) :
          /\ pc[p] = <<"Upload", UploadSteps[i]>>
          /\ \/ /\ spinner' = [spinner EXCEPT ![p] =
                                  IF UploadSteps[i] = "StatusCode" THEN @
                                  ELSE Append(@, "FinishSpinnerWithError")]
                /\ ReturnUpload(p, UploadStepError(UploadSteps[i]))
             \/ IF i < Len(UploadSteps)
                THEN /\ pc' = [pc EXCEPT ![p] = <<"Upload", UploadSteps[i + 1]>>]
                     /\ UNCHANGED <<spinner, err>>
                ELSE /\ spinner' = [spinner EXCEPT ![p] = Append(@, "FinishSpinner")]
                     /\ ReturnUpload(p, nil)
    /\ UNCHANGED <<uploadOptions, prompts>>

\* one step of Upload between ActionWithSpinner and the return
Upload_send(p) ==
    /\ \E i \in 1..Len(UploadSteps) :
          /\ pc[p] = <<"Upload", UploadSteps[i]>>
          /\ \/ \* log.FinishSpinnerWithError(); return errors.Wrap(err, ...)
                /\ spinner' = [spinner EXCEPT ![p] = Append(@, "FinishSpinnerWithError")]
                /\ ReturnUpload(p, UploadStepError(UploadSteps[i]))
             \/ IF i < Len(UploadSteps)
                THEN /\ pc' = [pc EXCEPT ![p] = <<"Upload", UploadSteps[i + 1]>>]
                     /\ UNCHANGED <<spinner, err>>
                ELSE \* log.FinishSpinner(); return nil
                     /\ spinner' = [spinner EXCEPT ![p] = Append(@, "FinishSpinner")]
                     /\ ReturnUpload(p, nil)
    /\ UNCHANGED <<uploadOptions, prompts>>

Upload(p) ==
    /\ \/ Upload_prepare(p)
       \/ relentlesslyPromptForAppName(p)
       \/ promptForUpstreamURI(p)
       \/ Upload_spinner(p)
       \/ Upload_send(p)
    /\ UNCHANGED <<cluster, procs, logger, opts, hash, docs, ret, entry, passes, opts0,
                   calls, built, hashed, writes, rand, ran, created, ret0>>

-----------------------------------------------------------------------------
(* The Logger: ActionWithSpinner starts a goroutine that redraws the       *)
(* spinner every 100 ms until it receives from the unbuffered channel      *)
(* spinnerStopCh; the Finish calls send on that channel and close it.      *)
(* spinnerStopCh is "nil", "open" or "closed"; the spinner goroutine is at *)
(* its select, in the redraw branch, or has returned; the caller is ready  *)
(* for a call, blocked in the send of a Finish call, about to close the    *)
(* channel, or has panicked.                                               *)

FinishCalls == {"FinishSpinner", "FinishChildSpinner", "FinishSpinnerWithError"}

\* the Logger's methods touch nothing but the Logger
LoggerOnly ==
    UNCHANGED <<cluster, procs, opts, pc, hash, docs, err, ret, entry, passes,
                opts0, calls, built, hashed, prompts, writes, rand, ran,
                created, ret0, uploadOptions, spinner>>

\* the caller may make another call
MayCall == logger.caller = "ready" /\ Len(logger.called) < MaxLoggerCalls

\* s.Next(): the next frame of the spinner
NextFrame(f) == (f % MaxFrames) + 1

\* l.isSilent = true
Silence ==
    /\ MayCall
    /\ logger' = [logger EXCEPT !.isSilent = TRUE,
                                !.called = Append(@, "Silence")]
    /\ LoggerOnly

\* ActionWithSpinner, called once: nothing when silent, else the first frame,
\* a new channel and the goroutine
ActionWithSpinner ==
    /\ MayCall
    /\ \A i \in 1..Len(logger.called) : logger.called[i] # "ActionWithSpinner"
    /\ IF logger.isSilent
       THEN logger' = [logger EXCEPT !.called = Append(@, "ActionWithSpinner")]
       ELSE logger' = [logger EXCEPT !.called = Append(@, "ActionWithSpinner"),
                                     !.frame = NextFrame(@),
                                     !.spinnerStopCh = "open",
                                     !.goroutine = "select"]
    /\ LoggerOnly

\* a Finish call up to its send: nothing when silent, else the line with the
\* mark is printed and the caller is at l.spinnerStopCh <- true
Finish ==
    /\ MayCall
    /\ \E f \in FinishCalls :
          IF logger.isSilent
          THEN logger' = [logger EXCEPT !.called = Append(@, f)]
          ELSE logger' = [logger EXCEPT !.called = Append(@, f), !.caller = "send"]
    /\ LoggerOnly

\* l.spinnerStopCh <- true: a send on a closed channel panics, a send on an
\* open channel completes when the goroutine receives at its select (the
\* goroutine returns), and a send on a nil channel never completes
Send ==
    /\ logger.caller = "send"
    /\ \/ /\ logger.spinnerStopCh = "closed"
          /\ logger' = [logger EXCEPT !.caller = "panicked"]
       \/ /\ logger.spinnerStopCh = "open"
          /\ logger.goroutine = "select"
          /\ logger' = [logger EXCEPT !.caller = "close", !.goroutine = "returned"]
    /\ LoggerOnly

\* close(l.spinnerStopCh), and the return of the Finish call
Close ==
    /\ logger.caller = "close"
    /\ logger' = [logger EXCEPT !.spinnerStopCh = "closed", !.caller = "ready"]
    /\ LoggerOnly

\* case <-time.After(time.Millisecond * 100)
Timer ==
    /\ logger.goroutine = "select"
    /\ logger' = [logger EXCEPT !.goroutine = "redraw"]
    /\ LoggerOnly

\* the redraw branch: the line is printed again with the next frame, and
\* the loop is back at its select
Redraw ==
    /\ logger.goroutine = "redraw"
    /\ logger' = [logger EXCEPT !.frame = NextFrame(@), !.goroutine = "select"]
    /\ LoggerOnly

-----------------------------------------------------------------------------
(* Specifications.                                                         *)

Next ==
    \E p \in Invokers :
        \/ StartDeploy(p)
        \/ StartGetSecretsYAML(p)
        \/ StartGetMinioYAML(p)
        \/ ensureJWTSessionSecret(p)
        \/ ensurePostgresSecret(p)
        \/ ensureSharedPasswordSecret(p)
        \/ ensureS3Secret(p)
        \/ ensureMinioConfigMap(p)
        \/ ensureMinioStatefulset(p)
        \/ ensureMinioService(p)
        \/ ensureMinioJob(p)
        \/ getSecretsYAML(p)
        \/ getMinioYAML(p)

Spec == Init /\ [][Next]_vars

SpecConc == InitConc /\ [][Next]_vars

\* an operator's session: one invoker calling entry points of the package,
\* Upload among them, one after the other
InitUpload ==
    \E present \in {{}, Keys} :
        InitWith([p \in Invokers |-> IF p = 1 THEN MaxPasses ELSE 0], present, {})

NextUpload ==
    \/ Next
    \/ \E p \in Invokers :
          \/ StartUpload(p)
          \/ Upload(p)

SpecUpload == InitUpload /\ [][NextUpload]_vars

\* a goroutine calling a Logger, and the Logger's spinner goroutine
InitLogger == InitWith([p \in Invokers |-> 0], {}, {})

NextLogger ==
    \/ Silence
    \/ ActionWithSpinner
    \/ Finish
    \/ Send
    \/ Close
    \/ Timer
    \/ Redraw

SpecLogger == InitLogger /\ [][NextLogger]_vars

-----------------------------------------------------------------------------
(* Properties.                                                             *)

Last(q) == q[Len(q)]

\* this step, invoker p issues a cluster call
Calls(p) == Len(calls'[p]) = Len(calls[p]) + 1

\* this step, invoker p issues the create call of ensure-operation op
CreateCalled(p, op) ==
    /\ Calls(p)
    /\ Last(calls'[p]).call = "create"
    /\ Last(calls'[p]).key = KeyOf(op, opts[p].Namespace)

\* the calls of p's current or last call that created a resource
CreatedBy(p) ==
    {i \in 1..Len(calls[p]) : calls[p][i].call = "create" /\ IsNil(calls[p][i].res)}

\* C1 as stated: a run of an ensure-operation that follows an earlier run of
\* it issues no create call and leaves the cluster as the earlier run left it.
C1_SecondRunNeverCreates ==
    [][\A p \in Invokers, op \in Ops :
          (ran[p][op] # "never" /\ pc[p][1] = op)
              => (~CreateCalled(p, op) /\ cluster' = cluster)]_vars

\* C1 amended: a run of an ensure-operation that follows a run of it that
\* returned nil issues no create call and leaves the cluster unchanged.
C1_Idempotent ==
    [][\A p \in Invokers, op \in Ops :
          (ran[p][op] = "ok" /\ pc[p][1] = op)
              => (~CreateCalled(p, op) /\ cluster' = cluster)]_vars

\* a second pass has run over a namespace the first pass created everything in
C1_Witness ==
    \E p \in Invokers :
        /\ passes[p] = 2 /\ pc[p] = Idle /\ entry[p] = "deploy" /\ IsNil(err[p])
        /\ Len(calls[p]) = 8
        /\ \A k \in Keys : created[k] = 1

\* C2: a Get that fails with an error other than not-found ends the call with
\* an error and without a change of the cluster, and a create call
\* follows directly on a Get of the same key that reported not-found.
C2_NotFoundDiscrimination ==
    [][\A p \in Invokers :
          Calls(p) =>
            LET c == Last(calls'[p])
            IN  /\ (c.call = "get" /\ c.res \notin {nil, NotFound})
                      => (cluster' = cluster /\ pc'[p] = Idle /\ ~IsNil(err'[p]))
                /\ c.call = "create"
                      => /\ Len(calls[p]) >= 1
                         /\ Last(calls[p]) = Call("get", c.key, NotFound)]_vars

\* a call has created a resource and has then ended on a failed query
C2_Witness ==
    \E p \in Invokers :
        /\ pc[p] = Idle /\ ~IsNil(err[p]) /\ Len(calls[p]) >= 3
        /\ Last(calls[p]).call = "get" /\ Last(calls[p]).res = ServerError
        /\ CreatedBy(p) # {}

\* C3: no step changes or removes a resource that exists.
C3_PresentNeverDisturbed ==
    [][\A k \in Keys : cluster[k] # Absent => cluster'[k] = cluster[k]]_vars

\* a call has found a resource present and has created another one beside it
C3_Witness ==
    \E p \in Invokers, k1, k2 \in Keys :
        /\ pc[p] = Idle /\ entry[p] = "deploy"
        /\ cluster[k1] = PreExisting(k1)
        /\ \E i \in 1..Len(calls[p]) : calls[p][i] = Call("get", k1, nil)
        /\ \E i \in CreatedBy(p) : calls[p][i].key = k2

\* C4: for every key at most one create succeeds, whatever the interleaving
\* of the invokers, and a key that existed beforehand is never created.
C4_SingleCreation ==
    \A k \in Keys :
        /\ created[k] <= 1
        /\ \A p, q \in Invokers : \A i \in CreatedBy(p), j \in CreatedBy(q) :
               (calls[p][i].key = k /\ calls[q][j].key = k) => (p = q /\ i = j)
        /\ created[k] = 1 => cluster[k] \notin {Absent, PreExisting(k)}
        /\ cluster[k] = PreExisting(k) => created[k] = 0

\* both invokers saw not-found for a key and both called create for it
C4_Witness ==
    \E k \in Keys, i, j \in 1..(2 * Cardinality(Keys)) :
        /\ i <= Len(calls[1]) /\ j <= Len(calls[2])
        /\ calls[1][i] = Call("create", k, nil)
        /\ calls[2][j] = Call("create", k, AlreadyExists)

\* the eight ensure-operations in the order a pass runs them
AllOps == SecretOps \o MinioOps

\* the place in AllOps of the operation that owns key k
OpIdxOf ==
    [k \in Keys |->
        CHOOSE i \in 1..Len(AllOps) : \E ns \in Namespaces : KeyOf(AllOps[i], ns) = k]

OpIdx(k) == OpIdxOf[k]

\* the message the group operation wraps the error of its i-th step in
EnsureMsg(i) ==
    IF i <= Len(SecretOps) THEN ensureSecretsMsg(AllOps[i]) ELSE ensureMinioMsg(AllOps[i])

C6_StopAtFirstFailure ==
    \A p \in Invokers :
        LET c == calls[p]
        IN  /\ \A i \in 1..Len(c) :
                  /\ i = 1 => c[i].call = "get" /\ OpIdx(c[i].key) = 1
                  /\ i > 1 => \/ /\ c[i].call = "create"
                                 /\ c[i - 1] = Call("get", c[i].key, NotFound)
                              \/ /\ c[i].call = "get"
                                 /\ OpIdx(c[i].key) = OpIdx(c[i - 1].key) + 1
                                 /\ IsNil(c[i - 1].res)
            /\ (entry[p] = "deploy" /\ pc[p] = Idle /\ ~IsNil(err[p])) =>
                  \E k \in 1..Len(AllOps) :
                     /\ Len(err[p]) = 4
                     /\ err[p][2] = EnsureMsg(k)
                     /\ \A i \in 1..Len(c) : OpIdx(c[i].key) <= k
                     /\ \/ /\ AllOps[k] = "password"
                           /\ err[p][4] = BcryptError[1]
                           /\ \A i \in 1..Len(c) : OpIdx(c[i].key) < k
                        \/ /\ Len(c) > 0
                           /\ OpIdx(Last(c).key) = k
                           /\ Last(c).res \in {ServerError, AlreadyExists}
                           /\ err[p][4] = Last(c).res[1]
                     /\ \A i \in CreatedBy(p) :
                           cluster[c[i].key] \notin {Absent, PreExisting(c[i].key)}

\* a pass has created resources and has then failed in ensureMinioService
C6_Witness ==
    \E p \in Invokers :
        /\ entry[p] = "deploy" /\ pc[p] = Idle
        /\ Len(err[p]) = 4 /\ err[p][2] = ensureMinioMsg("service")
        /\ Cardinality(CreatedBy(p)) >= 2

\* the call of p has failed in bcrypt
HashFailed(p) == pc[p] = Idle /\ Len(err[p]) >= 1 /\ Last(err[p]) = BcryptError[1]

\* C7 as stated: when the hashing of the shared password fails, ensureSecrets
\* has created no secret, and getSecretsYAML has run no builder and
\* has written no DeployOptions field.
C7_HashFailureBeforeAnyCreation ==
    \A p \in Invokers :
        HashFailed(p) =>
            /\ entry[p] = "deploy" => CreatedBy(p) = {}
            /\ entry[p] = "getSecretsYAML" => built[p] = <<>> /\ opts[p] = opts0[p]

\* C8: a credential field that was not empty on entry keeps its value and is
\* not written, and no field is written more than once in one call.
C8_GenerateOnce ==
    \A p \in Invokers, f \in CredentialFields :
        /\ writes[p][f] <= 1
        /\ opts0[p][f] # "" => opts[p][f] = opts0[p][f] /\ writes[p][f] = 0
        /\ writes[p][f] = 0 => opts[p][f] = opts0[p][f]

\* getSecretsYAML has returned after it generated the secret key beside an
\* access key the caller supplied
C8_Witness ==
    \E p \in Invokers :
        /\ entry[p] = "getSecretsYAML" /\ pc[p] = Idle /\ IsNil(err[p])
        /\ opts0[p].S3AccessKey # "" /\ opts0[p].S3SecretKey = ""
        /\ opts[p].S3AccessKey = opts0[p].S3AccessKey
        /\ writes[p]["S3SecretKey"] = 1

\* C9 as stated: a pass entered with the plaintext and without the hash
\* leaves a hash of the plaintext in SharedPasswordBcrypt, and a pass entered
\* with the hash computes no hash and builds the password secret from it.
C9_HashComputedOnce ==
    \A p \in Invokers :
        entry[p] \in {"deploy", "getSecretsYAML"} =>
            /\ ( /\ pc[p] = Idle /\ IsNil(err[p])
                 /\ opts0[p].SharedPassword # ""
                 /\ opts0[p].SharedPasswordBcrypt = "" )
                  => CompareHashAndPassword(opts[p].SharedPasswordBcrypt,
                                            opts0[p].SharedPassword)
            /\ opts0[p].SharedPasswordBcrypt # ""
                  => /\ hashed[p] = 0
                     /\ \A i \in 1..Len(built[p]) :
                           built[p][i].builder = "sharedPasswordSecret"
                              => built[p][i].args = <<opts0[p].SharedPasswordBcrypt>>

\* C10 as stated: no builder is handed an empty credential value.
C10_NoEmptyCredential ==
    \A p \in Invokers :
        \A i \in 1..Len(built[p]) :
            \A j \in 1..Len(built[p][i].args) : built[p][i].args[j] # ""

\* the data values of a resource definition
ObjectData(obj) == SubSeq(obj, 4, Len(obj))

\* the keys of the four secrets in p's namespace
SecretKeys(p) == {KeyOf(SecretOps[s], opts[p].Namespace) : s \in 1..Len(SecretOps)}

\* the keys of the four storage-service resources in p's namespace
MinioKeys(p) == {KeyOf(MinioOps[s], opts[p].Namespace) : s \in 1..Len(MinioOps)}

\* the places in p's calls of the calls named name on a key of K
CallsOn(p, name, K) ==
    {i \in 1..Len(calls[p]) : calls[p][i].call = name /\ calls[p][i].key \in K}

\* ensureSecrets of p's current or last call has returned nil: its last step,
\* ensureS3Secret, found or created its secret
SecretsDone(p) ==
    /\ entry[p] = "deploy"
    /\ \E i \in 1..Len(calls[p]) :
          calls[p][i].key = S3Key(opts[p].Namespace) /\ IsNil(calls[p][i].res)

\* C11 as stated: in a namespace with nothing in it and with every credential
\* field empty, an ensureSecrets that returns nil has created the four
\* secrets, each with generated (non-empty) data, and a second ensureSecrets
\* that returns nil has created nothing.
C11_FreshNamespace ==
    \A p \in Invokers :
        ( /\ SecretsDone(p)
          /\ \A k \in Keys : cluster[k] # PreExisting(k)
          /\ \A f \in CredentialFields \ {"SharedPassword"} : opts0[p][f] = ""
          /\ passes[p] = 1 => opts0[p].SharedPassword = "" )
        => /\ passes[p] = 1 =>
                 /\ Cardinality(CallsOn(p, "create", SecretKeys(p))) = 4
                 /\ CallsOn(p, "create", SecretKeys(p)) \subseteq CreatedBy(p)
                 /\ \A k \in SecretKeys(p) :
                        /\ cluster[k] # Absent
                        /\ \A j \in 1..Len(ObjectData(cluster[k])) :
                               ObjectData(cluster[k])[j] # ""
           /\ (passes[p] = 2 /\ \A k \in SecretKeys(p) : created[k] = 1)
                 => CallsOn(p, "create", SecretKeys(p)) = {}

\* C12: when the four storage-service resources all exist before ensureMinio
\* runs, ensureMinio issues no create, its queries are for the config map,
\* the stateful set, the service and the job in this order, one each, and
\* when it returns nil it has issued exactly these four queries and each
\* found its resource; it fails only on a query the cluster failed.
C12_AllPresentStorage ==
    \A p \in Invokers :
        LET c == calls[p]
            gets == CallsOn(p, "get", MinioKeys(p))
            first == Len(c) - Cardinality(gets)
        IN  ( /\ entry[p] = "deploy"
              /\ \A k \in MinioKeys(p) : cluster[k] # Absent
              /\ \A i \in CreatedBy(p) : c[i].key \notin MinioKeys(p) )
            => /\ CallsOn(p, "create", MinioKeys(p)) = {}
               /\ Cardinality(gets) <= Len(MinioOps)
               /\ \A i \in gets :
                     /\ i > first
                     /\ c[i].key = KeyOf(MinioOps[i - first], opts[p].Namespace)
               /\ (pc[p] = Idle /\ IsNil(err[p]))
                     => /\ Cardinality(gets) = Len(MinioOps)
                        /\ \A i \in gets : IsNil(c[i].res)
               /\ (pc[p] = Idle /\ ~IsNil(err[p]) /\ gets # {})
                     => Last(c).res = ServerError

\* a pass has created a secret and has then found the four storage-service
\* resources somebody else had put there
C12_Witness ==
    \E p \in Invokers :
        /\ entry[p] = "deploy" /\ pc[p] = Idle /\ IsNil(err[p])
        /\ \A k \in MinioKeys(p) : cluster[k] = PreExisting(k)
        /\ Cardinality(CallsOn(p, "get", MinioKeys(p))) = 4
        /\ CallsOn(p, "create", MinioKeys(p)) = {}
        /\ CreatedBy(p) # {}

\* ensureMinio of p's current or last call has returned nil
MinioDone(p) ==
    /\ entry[p] = "deploy"
    /\ \E i \in 1..Len(calls[p]) :
          calls[p][i].key = JobKey(opts[p].Namespace) /\ IsNil(calls[p][i].res)

\* every key of K is there, found by a Get of p's call or created by a
\* Create of p's call, and holds what was found or what was created
AllPresent(p, K) ==
    \A k \in K :
        /\ cluster[k] # Absent
        /\ \/ /\ \E i \in CallsOn(p, "get", {k}) : IsNil(calls[p][i].res)
              /\ CallsOn(p, "create", {k}) = {}
           \/ /\ \E i \in CreatedBy(p) : calls[p][i].key = k
              /\ cluster[k] # PreExisting(k)

\* C13: with one invoker, when ensureSecrets (ensureMinio) has returned nil
\* its four resources exist, each found or created by this call; a resource
\* exists exactly if it existed beforehand or a Create succeeded for it, a
\* step changes the cluster only by a Create that succeeds and only at the
\* key it creates, and a call that has returned an error has created nothing
\* in its failing step.
C13_SuccessMeansPresent ==
    /\ [](\A p \in Invokers :
            /\ SecretsDone(p) => AllPresent(p, SecretKeys(p))
            /\ MinioDone(p) => AllPresent(p, MinioKeys(p))
            /\ \A k \in Keys :
                  cluster[k] # Absent <=> (cluster[k] = PreExisting(k) \/ created[k] > 0)
            /\ (entry[p] = "deploy" /\ pc[p] = Idle /\ ~IsNil(err[p])
                   /\ Len(calls[p]) > 0 /\ ~IsNil(Last(calls[p]).res))
                  => /\ Last(calls[p]).call = "create"
                           => cluster[Last(calls[p]).key] = Absent
                     /\ Last(calls[p]).key \notin {calls[p][i].key : i \in CreatedBy(p)})
    /\ [][\A k \in Keys :
            cluster'[k] # cluster[k]
               => /\ cluster[k] = Absent
                  /\ \E p \in Invokers : /\ Calls(p)
                                         /\ Last(calls'[p]) = Call("create", k, nil)
                                         /\ \A j \in Keys \ {k} : cluster'[j] = cluster[j]]_vars

\* a pass over a namespace that held some of the resources has returned nil
\* after creating the others
C13_Witness ==
    \E p \in Invokers :
        /\ MinioDone(p) /\ pc[p] = Idle /\ IsNil(err[p])
        /\ \E k \in Keys : cluster[k] = PreExisting(k)
        /\ \E k \in SecretKeys(p) : created[k] = 1
        /\ \E k \in MinioKeys(p) : created[k] = 1

\* the document names a render call returns
DocNames(e) ==
    IF e = "getSecretsYAML"
    THEN {"secret-jwt.yaml", "secret-pg.yaml", "secret-shared-password.yaml",
          "secret-s3.yaml"}
    ELSE {"minio-configmap.yaml", "minio-statefulset.yaml", "minio-service.yaml",
          "minio-job.yaml"}

\* C14: a render call that has returned has returned either an error and no
\* document map, or no error and a map with exactly one document for each of
\* its four names; the documents it encoded before an error are not returned.
C14_NoPartialManifestSet ==
    \A p \in Invokers :
        (entry[p] \in {"getSecretsYAML", "getMinioYAML"} /\ pc[p] = Idle) =>
            \/ /\ ~IsNil(err[p])
               /\ ret[p] = <<>>
            \/ /\ IsNil(err[p])
               /\ Len(ret[p]) = 1
               /\ {d.name : d \in ret[p][1]} = DocNames(entry[p])
               /\ Cardinality(ret[p][1]) = Cardinality(DocNames(entry[p]))

\* getSecretsYAML has failed to encode its fourth document after it encoded
\* three
C14_Witness ==
    \E p \in Invokers :
        /\ entry[p] = "getSecretsYAML" /\ pc[p] = Idle
        /\ err[p] = Wrap(EncodeError, "failed to marshal s3 secret")
        /\ Cardinality(docs[p]) = 3
        /\ ret[p] = <<>>

\* every credential field of o holds a value
FullySupplied(o) == \A f \in CredentialFields : o[f] # ""

\* the call of p before the current one was a getSecretsYAML that returned
\* documents
RenderedBefore(p) ==
    /\ Len(ret0[p]) = 1
    /\ {d.name : d \in ret0[p][1]} = DocNames("getSecretsYAML")

\* C15: a getSecretsYAML entered with every credential field set writes no
\* DeployOptions field, computes no hash and issues no cluster call, and
\* when it returns documents after an earlier getSecretsYAML on the same value
\* did, it returns the same names with the same content.
C15_RenderDeterminism ==
    \A p \in Invokers :
        (entry[p] = "getSecretsYAML" /\ FullySupplied(opts0[p])) =>
            /\ opts[p] = opts0[p]
            /\ writes[p] = NoWrites
            /\ hashed[p] = 0
            /\ calls[p] = <<>>
            /\ (pc[p] = Idle /\ IsNil(err[p]) /\ RenderedBefore(p)) => ret[p] = ret0[p]

\* getSecretsYAML has returned documents twice on a caller-supplied value
C15_Witness ==
    \E p \in Invokers :
        /\ entry[p] = "getSecretsYAML" /\ pc[p] = Idle /\ IsNil(err[p])
        /\ passes[p] = 2
        /\ opts0[p] = OptionsWith(opts0[p].Namespace, CredentialFields)
        /\ RenderedBefore(p)
        /\ Len(ret[p]) = 1 /\ Cardinality(ret[p][1]) = 4

\* the definition getSecretsYAML encodes for the secret of op from the
\* DeployOptions o
RenderedSecret(o, op) ==
    CASE op = "session"  -> jwtSecret(o.Namespace, o.JWT)
      [] op = "postgres" -> pgSecret(o.Namespace, o.PostgresPassword)
      [] op = "password" -> sharedPasswordSecret(o.Namespace, o.SharedPasswordBcrypt)
      [] op = "s3"       -> s3Secret(o.Namespace, o.S3AccessKey, o.S3SecretKey)

\* C16 as stated: a secret that ensureSecrets creates from DeployOptions with
\* every credential field set is the definition getSecretsYAML renders for
\* that secret from the same DeployOptions.
C16_RenderApplySameDefinitions ==
    \A p \in Invokers :
        (entry[p] = "deploy" /\ FullySupplied(opts0[p])) =>
            \A i \in CreatedBy(p) : \A s \in 1..Len(SecretOps) :
                calls[p][i].key = KeyOf(SecretOps[s], opts[p].Namespace)
                    => cluster[calls[p][i].key] = RenderedSecret(opts0[p], SecretOps[s])

\* C17: a Create that the cluster rejects with already-exists follows a Get
\* of the same key that reported not-found, another invoker has created the
\* resource in between, the resource exists, and the rejected invoker's call
\* has ended there with the create error, wrapped by the step's message.
C17_CheckThenCreateRace ==
    \A p \in Invokers : \A i \in 1..Len(calls[p]) :
        calls[p][i].res = AlreadyExists =>
            LET k == calls[p][i].key
            IN  /\ calls[p][i].call = "create"
                /\ i > 1 /\ calls[p][i - 1] = Call("get", k, NotFound)
                /\ cluster[k] \notin {Absent, PreExisting(k)}
                /\ \E q \in Invokers \ {p} : \E j \in CreatedBy(q) :
                       /\ calls[q][j].key = k
                       /\ calls[q][j - 1] = Call("get", k, NotFound)
                /\ i = Len(calls[p])
                /\ pc[p] = Idle
                /\ Len(err[p]) = 4
                /\ err[p][2] = EnsureMsg(OpIdx(k))
                /\ err[p][4] = AlreadyExists[1]

\* two invokers have both been told the config map is not there, one has
\* created it, and the other's call has ended on its rejected create
C17_Witness ==
    \E p, q \in Invokers :
        LET k == ConfigMapKey(opts[p].Namespace)
        IN  /\ p # q
            /\ Len(calls[p]) > 1 /\ Len(calls[q]) > 1
            /\ Last(calls[p]) = Call("create", k, AlreadyExists)
            /\ calls[p][Len(calls[p]) - 1] = Call("get", k, NotFound)
            /\ \E j \in CreatedBy(q) :
                  calls[q][j].key = k /\ calls[q][j - 1] = Call("get", k, NotFound)
            /\ pc[p] = Idle /\ ~IsNil(err[p])
            /\ cluster[k] # Absent

PromptNames == {"sharedPassword", "appName", "upstreamURI"}

\* the position of the loop of the prompt n
PromptAt(n) ==
    IF n = "sharedPassword" THEN <<"password", "prompt">> ELSE <<"Upload", n>>

\* the field the caller of the prompt n assigns the returned value to
PromptValue(p, n) ==
    CASE n = "sharedPassword" -> opts[p].SharedPassword
      [] n = "appName"        -> uploadOptions[p].NewAppName
      [] n = "upstreamURI"    -> uploadOptions[p].UpstreamURI

\* the Validate function of the prompt n
PromptValid(n, v) ==
    CASE n = "sharedPassword" -> ValidPassword(v)
      [] n = "appName"        -> ValidAppName(v)
      [] n = "upstreamURI"    -> ValidUpstreamURI(v)

\* the message the caller of the prompt n wraps an error of it in
PromptMsg(n) ==
    CASE n = "sharedPassword" -> "failed to prompt for shared password"
      [] n = "appName"        -> "failed to prompt for app name"
      [] n = "upstreamURI"    -> "failed to prompt for upstream uri"

\* C18: of the runs of a prompt loop, a run that ended on an interrupt is the
\* last thing its process did; a run that failed otherwise is followed by
\* another run of the same prompt (or the loop is about to run it); a run
\* that succeeded is the last run of its prompt, its line passed Validate and
\* is the value the caller holds, and the loop has been left.  No caller has
\* got an error from a prompt, and a process that has exited does nothing
\* any more.
C18_PromptLoopProtocol ==
    /\ [](\A p \in Invokers :
            LET q == prompts[p]
            IN  /\ \A i \in 1..Len(q) :
                      LET n == q[i].prompt
                      IN  /\ q[i].err = ErrInterrupt => (i = Len(q) /\ pc[p] = Exited)
                          /\ q[i].err \notin {nil, ErrInterrupt} =>
                                IF i = Len(q) THEN pc[p] = PromptAt(n)
                                              ELSE q[i + 1].prompt = n
                          /\ IsNil(q[i].err) =>
                                /\ PromptValid(n, q[i].result)
                                /\ PromptValue(p, n) = q[i].result
                                /\ \A j \in (i + 1)..Len(q) : q[j].prompt # n
                                /\ pc[p] # PromptAt(n)
                /\ pc[p] = Exited => (Len(q) > 0 /\ Last(q).err = ErrInterrupt)
                /\ \A n \in PromptNames : \A j \in 1..Len(err[p]) : err[p][j] # PromptMsg(n))
    /\ [][\A p \in Invokers :
            pc[p] = Exited =>
               /\ pc'[p] = Exited
               /\ prompts'[p] = prompts[p]
               /\ opts'[p] = opts[p]
               /\ uploadOptions'[p] = uploadOptions[p]
               /\ calls'[p] = calls[p]
               /\ spinner'[p] = spinner[p]]_vars

\* Upload has asked for the application name twice, the first run having
\* failed, and has exited on an interrupt at the upstream URI prompt
C18_Witness ==
    \E p \in Invokers :
        /\ pc[p] = Exited /\ entry[p] = "Upload"
        /\ Len(prompts[p]) = 3
        /\ prompts[p][1] = PromptRun("appName", ErrEOF, "")
        /\ prompts[p][2] = PromptRun("appName", nil, "my-app")
        /\ prompts[p][3] = PromptRun("upstreamURI", ErrInterrupt, "")
        /\ uploadOptions[p].NewAppName = "my-app"

\* C19: in one call of ensureSecrets and ensureMinio every key is queried at
\* most once and created at most once, no call on a key follows the Create
\* of that key, no call follows a call that failed, so there are at most
\* four queries and four creates for each of the two; and a step of an
\* invoker issues at most one cluster call.
C19_NoRetryNoRequery ==
    /\ [](\A p \in Invokers :
            LET c == calls[p]
            IN  /\ \A i, j \in 1..Len(c) :
                      i < j => /\ c[i].key = c[j].key => c[i].call # c[j].call
                               /\ c[i].call = "create" => c[j].key # c[i].key
                /\ \A i \in 1..Len(c) :
                      c[i].res \notin {nil, NotFound} => i = Len(c)
                /\ \A K \in {SecretKeys(p), MinioKeys(p)} :
                      /\ Cardinality(CallsOn(p, "get", K)) <= 4
                      /\ Cardinality(CallsOn(p, "create", K)) <= 4)
    /\ [][\A p \in Invokers :
            \/ calls'[p] = calls[p]
            \/ calls'[p] = <<>>
            \/ /\ Len(calls'[p]) = Len(calls[p]) + 1
               /\ SubSeq(calls'[p], 1, Len(calls[p])) = calls[p]]_vars

\* a pass has returned nil after four queries and four creates in each of
\* ensureSecrets and ensureMinio
C19_Witness ==
    \E p \in Invokers :
        /\ entry[p] = "deploy" /\ pc[p] = Idle /\ IsNil(err[p])
        /\ \A K \in {SecretKeys(p), MinioKeys(p)} :
              /\ Cardinality(CallsOn(p, "get", K)) = 4
              /\ Cardinality(CallsOn(p, "create", K)) = 4

\* C20 as stated: when the Get of ensureSharedPasswordSecret found the
\* kotsadm-password secret, the call has run no prompt, has computed no hash
\* and has left every DeployOptions field as it was.
C20_PresentPasswordNoAction ==
    \A p \in Invokers :
        ( /\ entry[p] = "deploy"
          /\ \E i \in 1..Len(calls[p]) :
                calls[p][i] = Call("get", PasswordKey(opts[p].Namespace), nil) )
        => /\ prompts[p] = <<>>
           /\ hashed[p] = 0
           /\ opts[p] = opts0[p]

\* the positions of Upload before log.ActionWithSpinner is called
BeforeSpinner ==
    {<<"Upload", "prepare">>, <<"Upload", "appName">>, <<"Upload", "upstreamURI">>,
     <<"Upload", "spinner">>}

\* the positions of Upload between log.ActionWithSpinner and the return
WhileSpinning == {<<"Upload", UploadSteps[i]>> : i \in 1..Len(UploadSteps)}

\* the errors Upload returns before it starts the spinner
EarlyErrors ==
    {Wrap(ExternalError, msg) :
        msg \in {"failed to find license", "failed to find update cursor",
                 "failed to create uploadable archive"}}
    \cup {<<"no update cursor found. this is not yet supported">>}

\* C21: an Upload that has returned has either returned one of its early
\* errors without any Logger call, or has called ActionWithSpinner and then
\* exactly one Finish: FinishSpinner when it returned nil and
\* FinishSpinnerWithError when it returned an error; an Upload that has not
\* returned has called no Finish, and has called ActionWithSpinner exactly
\* when it is past that call.
C21_SpinnerPairing ==
    \A p \in Invokers :
        entry[p] = "Upload" =>
            /\ pc[p] \in BeforeSpinner \cup {Exited} => spinner[p] = <<>>
            /\ pc[p] \in WhileSpinning => spinner[p] = <<"ActionWithSpinner">>
            /\ pc[p] = Idle =>
                  \/ /\ spinner[p] = <<>>
                     /\ err[p] \in EarlyErrors
                  \/ /\ spinner[p] = <<"ActionWithSpinner", "FinishSpinner">>
                     /\ IsNil(err[p])
                  \/ /\ spinner[p] = <<"ActionWithSpinner", "FinishSpinnerWithError">>
                     /\ ~IsNil(err[p])
                     /\ err[p] \notin EarlyErrors

\* Upload has prompted for the application name, has started the spinner and
\* has returned the error of an unexpected status code
C21_Witness ==
    \E p \in Invokers :
        /\ entry[p] = "Upload" /\ pc[p] = Idle
        /\ err[p] = UploadStepError("StatusCode")
        /\ RunsOf(p, "appName") # {}
        /\ spinner[p] = <<"ActionWithSpinner", "FinishSpinnerWithError">>

\* the Finish calls made after ActionWithSpinner started the goroutine
FinishesAfterStart ==
    {i \in 1..Len(logger.called) :
        /\ logger.called[i] \in FinishCalls
        /\ \E j \in 1..(i - 1) : logger.called[j] = "ActionWithSpinner"}

\* C22: on a Logger whose ActionWithSpinner started the spinner goroutine,
\* one later Finish call does not panic on the channel, and once it has
\* returned the spinner goroutine has terminated, whatever the place of a
\* Silence call among the calls.
C22_FinishStopsSpinner ==
    (logger.spinnerStopCh # "nil" /\ Cardinality(FinishesAfterStart) = 1) =>
        /\ logger.caller # "panicked"
        /\ logger.caller = "ready" => logger.goroutine = "returned"

====
